---- MODULE Spec2Model ----
(***************************************************************************)
(* Model of class Analyzer (examples/javascript-large/src/scripts/         *)
(* analyzer.cpp): a name, a vector<int> of samples, calculateAverage()     *)
(* over a double accumulator, and printReport() writing two lines to       *)
(* std::cout.                                                              *)
(*                                                                         *)
(* The vector.  std::vector<int> data is a sequence of blocks              *)
(* [value, count]; a block stands for count consecutive elements equal to  *)
(* value.  addData appends a block of one element.  Blocks of more than    *)
(* one element occur only in the initial states of SpecBulk, which are the *)
(* states of an Analyzer on which addData was called millions of times     *)
(* with one value.                                                         *)
(*                                                                         *)
(* Numbers.  TLC's integers are 32 bits wide, the same width as the `int`  *)
(* samples.  The accumulator `double sum` always holds an integer; it is   *)
(* modelled by two limbs, [hi, lo] standing for hi * 2^27 + lo with        *)
(* 0 <= lo < 2^27.  A double holds every integer of magnitude up to 2^53   *)
(* exactly, and beyond that only the multiples of 2, 4, ...: `sum += value`*)
(* is the exact sum rounded to 53 significant bits, ties to even           *)
(* (RoundToDouble).                                                        *)
(*                                                                         *)
(* The quotient sum / data.size() is the double nearest to the rational    *)
(* sum / n.  The value returned is recorded as that rational, a mixed      *)
(* number [ip, num, den] standing for ip + num/den, ip = floor,            *)
(* 0 <= num < den, num/den in lowest terms; the double it denotes is       *)
(* DoubleOf, and two returned values are the same double when SameDouble   *)
(* holds.  With a few samples two different such rationals are further     *)
(* apart than the spacing of doubles at 2^31 and denote different doubles. *)
(***************************************************************************)
EXTENDS Integers, Sequences, FiniteSets, TLC

\* Range of the C++ `int` samples (std::vector<int> data; void addData(int)).
Int32Max == 2147483647
Int32Min == -2147483647 - 1

\* Limb base of the integer-valued double: 2^27.
LimbBase == 134217728

\* Significant bits of a double.
DoubleBits == 53

\* Default precision of std::ostream for operator<<(double): 6 significant digits.
StreamPrecision == 6

\* Number of operations performed on one Analyzer in a behaviour.
MaxCalls == 4

\* Constructor arguments and addData arguments explored.
Names == {"", "Sensor-C"}
Values == {Int32Min, -3, 1, 2, 10, 20, 30, Int32Max}

(***************************************************************************)
(* std::vector<int>                                                        *)
(***************************************************************************)

\* count consecutive elements equal to value.
Block(value, count) == [value |-> value, count |-> count]

\* The vectors.
Vectors == Seq([value : Int, count : Nat])

\* data.size()
RECURSIVE Size(_)
Size(d) == IF d = <<>> THEN 0 ELSE Head(d).count + Size(Tail(d))

(***************************************************************************)
(* double arithmetic of calculateAverage                                   *)
(***************************************************************************)

\* The integer-valued doubles, in limbs.
Limbs == [hi : Int, lo : Nat]

\* double sum = 0.0;
DZeroSum == [hi |-> 0, lo |-> 0]

\* The limbs of an int widened to double.
FromInt(v) == [hi |-> v \div LimbBase, lo |-> v % LimbBase]

\* Carry propagation, so that equal values have equal limbs.
Normalise(h, l) == [hi |-> h + (l \div LimbBase), lo |-> l % LimbBase]

\* The exact sum of two integers in limbs.
Plus(a, b) == Normalise(a.hi + b.hi, a.lo + b.lo)

Pow2[k \in Nat] == IF k = 0 THEN 1 ELSE 2 * Pow2[k - 1]

\* How many low bits of the integer with high limb h a double cannot hold:
\* none up to magnitude 2^53, one up to 2^54, and so on.
ExcessBits[h \in Int] ==
    IF -(LimbBase \div 2) <= h /\ h < LimbBase \div 2 THEN 0
    ELSE 1 + ExcessBits[h \div 2]

\* The double nearest to the integer x: x rounded to a multiple of 2^e,
\* e its excess bits, a tie going to the even multiple.
RoundToDouble[x \in Limbs] ==
    LET e    == ExcessBits[x.hi]
        unit == Pow2[e]
        low  == x.lo % unit
        even == (x.lo \div unit) % 2 = 0
        up   == 2 * low > unit \/ (2 * low = unit /\ ~even)
    IN  IF low = 0 THEN x
        ELSE IF up THEN Normalise(x.hi, x.lo - low + unit)
        ELSE [hi |-> x.hi, lo |-> x.lo - low]

\* A plausible slip: `sum = value` instead of `sum += value`.
SumStepAssign(sum, value) == FromInt(value)

\* A plausible slip: `int sum` instead of `double sum`; the sum then wraps
\* modulo 2^32 into the signed 32-bit range.
SumStepInt32(sum, value) ==
    LET s == Plus(sum, FromInt(value))
    IN  [hi |-> ((s.hi + 16) % 32) - 16, lo |-> s.lo]

\* sum += value;   (value converted to double, the sum rounded to a double)
SumStep(sum, value) == RoundToDouble[Plus(sum, FromInt(value))]

\* Twice an integer in limbs.
Twice[x \in Limbs] == Normalise(2 * x.hi, 2 * x.lo)

\* The integer c * v in limbs, by doubling.
Times[v \in Int, c \in Nat] ==
    IF c = 0 THEN DZeroSum
    ELSE Plus(Twice[Times[v, c \div 2]], IF c % 2 = 1 THEN FromInt(v) ELSE DZeroSum)

\* The integers a double holds exactly whatever their low bits: magnitude
\* at most 2^53.
InExactRange(x) ==
    \/ -(LimbBase \div 2) <= x.hi /\ x.hi < LimbBase \div 2
    \/ x.hi = LimbBase \div 2 /\ x.lo = 0

\* sum += value, executed c times with the same value.  When sum and
\* sum + c * value are both in the exact range so is every sum in between,
\* each addition is exact and the result is sum + c * value; otherwise the
\* c iterations are the first c / 2 followed by the rest.
SumRun[acc \in Limbs, v \in Int, c \in Nat] ==
    IF c = 0 THEN acc
    ELSE IF c = 1 THEN SumStep(acc, v)
    ELSE IF InExactRange(acc) /\ InExactRange(Plus(acc, Times[v, c]))
    THEN Plus(acc, Times[v, c])
    ELSE SumRun[SumRun[acc, v, c \div 2], v, c - (c \div 2)]

\* for (int value : data) { sum += value; }   from sum = acc, in vector order
\* (a function, so that the accumulator is a value at every iteration)
SumLoop[acc \in Limbs, d \in Vectors] ==
    IF d = <<>> THEN acc
    ELSE SumLoop[SumRun[acc, Head(d).value, Head(d).count], Tail(d)]

Gcd[a \in Nat, b \in Nat] == IF b = 0 THEN a ELSE Gcd[b, a % b]

\* Quotients with their remainders.
QuoRem == [q : Int, r : Nat]

\* One step of long division in base 8: quotient and remainder p so far,
\* the next digit g of the dividend, the divisor n.
LongStep[p \in QuoRem, g \in Nat, n \in Nat] ==
    [q |-> p.q * 8 + ((p.r * 8 + g) \div n), r |-> (p.r * 8 + g) % n]

\* Long division continued from quotient and remainder p over the k base-8
\* digits of x: quotient and remainder of (p.q * n + p.r) * 8^k + x by n,
\* for p.r < n < 2^28, three bits at a time so that no intermediate value
\* exceeds 32 bits.
LongDiv[p \in QuoRem, x \in Nat, n \in Nat, k \in Nat] ==
    IF k = 0 THEN p
    ELSE LongStep[LongDiv[p, x \div 8, n, k - 1], x % 8, n]

\* floor(sum / n) and the remainder, for the integer sum in limbs
\* (LimbBase = 8^9).
DivMod(sum, n) == LongDiv[[q |-> sum.hi \div n, r |-> sum.hi % n], sum.lo, n, 9]

\* The double values calculateAverage can return.
DZero == [kind |-> "finite", ip |-> 0, num |-> 0, den |-> 1]
\* 0.0 / 0 is the default NaN of the x86-64 divide, whose sign bit is set.
DNaN == [kind |-> "-nan", ip |-> 0, num |-> 0, den |-> 1]
DInf(neg) == [kind |-> IF neg THEN "-inf" ELSE "inf", ip |-> 0, num |-> 0, den |-> 1]

\* A plausible slip: integer division, which truncates toward zero.
DDivTruncating(sum, n) ==
    LET qr == DivMod(sum, n)
    IN  [kind |-> "finite", ip |-> IF qr.q < 0 /\ qr.r > 0 THEN qr.q + 1 ELSE qr.q,
         num |-> 0, den |-> 1]

\* The quotient p.q + p.r / n as a mixed number in lowest terms.
Lowest[p \in QuoRem, n \in Nat] ==
    [kind |-> "finite", ip |-> p.q,
     num |-> p.r \div Gcd[n, p.r], den |-> n \div Gcd[n, p.r]]

\* sum / data.size()   (IEEE division; n = 0 gives NaN or an infinity)
DDiv(sum, n) ==
    IF n = 0
    THEN IF sum = DZeroSum THEN DNaN ELSE DInf(sum.hi < 0)
    ELSE Lowest[DivMod(sum, n), n]

\* A plausible slip: the empty-vector check is missing.
CalculateAverageRunUnguarded(d) ==
    [ret |-> DDiv(SumLoop[DZeroSum, d], Size(d)), divided |-> TRUE]

\* One execution of calculateAverage() on vector d: the value returned and
\* whether the division by data.size() was executed.
CalculateAverageRun(d) ==
    IF d = <<>>
    THEN [ret |-> DZero, divided |-> FALSE]
    ELSE [ret |-> DDiv(SumLoop[DZeroSum, d], Size(d)), divided |-> TRUE]

\* double calculateAverage() const
CalculateAverage(d) == CalculateAverageRun(d).ret

(***************************************************************************)
(* std::cout << double: the conversion %g with the stream's default        *)
(* precision, as std::num_put performs it.  The decimal digits are those   *)
(* of the exact binary value of the double, rounded to StreamPrecision     *)
(* significant digits with ties to even.  The double is the quotient       *)
(* rounded to 53 significant bits, so it lies within 2^-53 (relative) of   *)
(* the quotient, while a quotient with denominator below 2^23 that is not  *)
(* itself a decimal tie lies further than that from every tie: the digits  *)
(* of the double are those of the quotient, except when the quotient is a  *)
(* tie.  Then the side on which the double lies decides (DoubleError):     *)
(* 12345.15 = 246903/20 is held as 12345.1499999... and prints 12345.1.    *)
(***************************************************************************)

DigitChar(k) == <<"0", "1", "2", "3", "4", "5", "6", "7", "8", "9">>[k + 1]

\* The helpers below are functions rather than operators: a function's
\* argument is a value, computed once however often the body reads it.
Digit == 0..9

DigitString[ds \in Seq(Digit)] ==
    IF ds = <<>> THEN "" ELSE DigitChar(Head(ds)) \o DigitString[Tail(ds)]

\* Decimal digits of -m for m <= 0, most significant first (<<>> for 0).
\* The magnitude is kept negated because -Int32Min is no 32-bit integer.
NegDigits[m \in Int] ==
    IF m >= 0 THEN <<>>
    ELSE LET dg == (10 - (m % 10)) % 10
         IN  Append(NegDigits[(m + dg) \div 10], dg)

\* The first k decimal digits of r/den (0 <= r < den), and the remainder left.
FracDigits[r \in Nat, den \in Nat, k \in Nat] ==
    IF k = 0 THEN [digits |-> <<>>, rem |-> r]
    ELSE LET rest == FracDigits[(r * 10) % den, den, k - 1]
         IN  [digits |-> <<(r * 10) \div den>> \o rest.digits, rem |-> rest.rem]

\* Number of zeros between the decimal point and the first non-zero digit
\* of r/den (0 <= r < den; none when r = 0).
LeadZeros[r \in Nat, den \in Nat] ==
    IF r = 0 \/ r * 10 >= den THEN 0 ELSE 1 + LeadZeros[r * 10, den]

\* ds + 1 in the last place; carry is TRUE when every digit was 9.
Increment[ds \in Seq(Digit)] ==
    IF ds = <<>> THEN [digits |-> <<>>, carry |-> TRUE]
    ELSE LET n == Len(ds)
             front == SubSeq(ds, 1, n - 1)
         IN  IF ds[n] < 9
             THEN [digits |-> Append(front, ds[n] + 1), carry |-> FALSE]
             ELSE [digits |-> Append(Increment[front].digits, 0),
                   carry |-> Increment[front].carry]

StripTrailingZeros[ds \in Seq(Digit)] ==
    IF ds # <<>> /\ ds[Len(ds)] = 0
    THEN StripTrailingZeros[SubSeq(ds, 1, Len(ds) - 1)]
    ELSE ds

Zeros[k \in Nat] == IF k = 0 THEN <<>> ELSE <<0>> \o Zeros[k - 1]

\* Sign and magnitude of a finite double: the magnitude is -nip + fnum/den.
Magnitude(x) ==
    IF x.ip >= 0 THEN [neg |-> FALSE, nip |-> -x.ip, fnum |-> x.num, den |-> x.den]
    ELSE IF x.num = 0 THEN [neg |-> TRUE, nip |-> x.ip, fnum |-> 0, den |-> x.den]
    ELSE [neg |-> TRUE, nip |-> x.ip + 1, fnum |-> x.den - x.num, den |-> x.den]

Magnitudes == [neg : BOOLEAN, nip : Int, fnum : Nat, den : Nat]

\* Number of binary digits of -n for n <= 0.
BitLength[n \in Int] ==
    IF n >= 0 THEN 0 ELSE 1 + BitLength[(n + (n % 2)) \div 2]

\* Number of zero bits between the binary point and the first one bit of
\* r/den (0 <= r < den; none when r = 0).
LeadZeroBits[r \in Nat, den \in Nat] ==
    IF r = 0 \/ 2 * r >= den THEN 0 ELSE 1 + LeadZeroBits[2 * r, den]

\* r/den after its first k binary digits: the remainder left, and whether
\* the last of those digits is a one (for k = 0, the given parity).
BitsAfter[r \in Nat, den \in Nat, k \in Nat, odd \in BOOLEAN] ==
    IF k = 0 THEN [rem |-> r, odd |-> odd]
    ELSE BitsAfter[(2 * r) % den, den, k - 1, (2 * r) \div den = 1]

\* Where the double (53 significant bits, round to nearest, ties to even)
\* lies relative to the magnitude it rounds: on it, above it or below it.
DoubleError[m \in Magnitudes] ==
    LET k  == BitLength[m.nip]
        z  == IF k = 0 THEN LeadZeroBits[m.fnum, m.den] ELSE 0
        b  == BitsAfter[m.fnum, m.den, DoubleBits - k + z, m.nip % 2 = 1]
    IN  IF b.rem = 0 THEN "exact"
        ELSE IF 2 * b.rem > m.den THEN "above"
        ELSE IF 2 * b.rem < m.den THEN "below"
        ELSE IF b.odd THEN "above" ELSE "below"

Bit == 0..1

\* The first k binary digits of r/den after the binary point (0 <= r < den).
FracBits[r \in Nat, den \in Nat, k \in Nat] ==
    IF k = 0 THEN <<>>
    ELSE <<(2 * r) \div den>> \o FracBits[(2 * r) % den, den, k - 1]

\* bs + 1 in the last place; carry is TRUE when every bit was one.
IncrementBits[bs \in Seq(Bit)] ==
    IF bs = <<>> THEN [bits |-> <<>>, carry |-> TRUE]
    ELSE IF bs[Len(bs)] = 0
    THEN [bits |-> Append(SubSeq(bs, 1, Len(bs) - 1), 1), carry |-> FALSE]
    ELSE [bits |-> Append(IncrementBits[SubSeq(bs, 1, Len(bs) - 1)].bits, 0),
          carry |-> IncrementBits[SubSeq(bs, 1, Len(bs) - 1)].carry]

StripTrailingZeroBits[bs \in Seq(Bit)] ==
    IF bs # <<>> /\ bs[Len(bs)] = 0
    THEN StripTrailingZeroBits[SubSeq(bs, 1, Len(bs) - 1)]
    ELSE bs

\* The double nearest to a magnitude (DoubleBits significant bits, round to
\* nearest, ties to even): its sign, its integer part (negated) and the
\* binary digits of its fraction up to the last one bit.  Two magnitudes
\* are held as the same double exactly when these agree.
DoubleOf[m \in Magnitudes] ==
    LET k    == BitLength[m.nip]
        z    == IF k = 0 THEN LeadZeroBits[m.fnum, m.den] ELSE 0
        bits == FracBits[m.fnum, m.den, DoubleBits - k + z]
    IN  IF DoubleError[m] # "above"
        THEN [neg |-> m.neg, nip |-> m.nip, frac |-> StripTrailingZeroBits[bits]]
        ELSE IF IncrementBits[bits].carry
        THEN [neg |-> m.neg, nip |-> m.nip - 1, frac |-> <<>>]
        ELSE [neg |-> m.neg, nip |-> m.nip,
              frac |-> StripTrailingZeroBits[IncrementBits[bits].bits]]

\* The decimal expansion of a non-zero magnitude from its first non-zero
\* digit: the first StreamPrecision digits (kept), the integer digits after
\* them (tail), the fraction rem/den left after those, the decimal
\* exponent of the first digit, and the side on which the double lies.
Expansion[m \in Magnitudes] ==
    LET P    == StreamPrecision
        ipd  == NegDigits[m.nip]
        li   == Len(ipd)
        lz   == IF li = 0 THEN LeadZeros[m.fnum, m.den] ELSE 0
        nf   == IF li >= P THEN 0 ELSE (P - li) + lz
        fd   == FracDigits[m.fnum, m.den, nf]
        all  == ipd \o fd.digits
        sig  == SubSeq(all, lz + 1, Len(all))
    IN  [kept |-> SubSeq(sig, 1, P),
         tail |-> SubSeq(sig, P + 1, Len(sig)),
         rem  |-> fd.rem,
         den  |-> m.den,
         exp  |-> IF li > 0 THEN li - 1 ELSE -(lz + 1),
         err  |-> DoubleError[m]]

Expansions ==
    [kept : Seq(Digit), tail : Seq(Digit), rem : Nat, den : Nat, exp : Int,
     err : {"exact", "above", "below"}]

\* The StreamPrecision significant digits after rounding to nearest, ties
\* to even, and the decimal exponent of the first of them.  When the
\* quotient drops exactly half a unit, the double drops more, less or
\* exactly that, as it lies above, below or on the quotient.
Rounded[e \in Expansions] ==
    LET P     == StreamPrecision
        exact == \* what the quotient drops, compared with half a unit of the last place
            IF e.tail = <<>>
            THEN IF 2 * e.rem > e.den THEN "more"
                 ELSE IF 2 * e.rem = e.den THEN "half" ELSE "less"
            ELSE IF e.tail[1] > 5 THEN "more"
                 ELSE IF e.tail[1] < 5 THEN "less"
                 ELSE IF (\E i \in 2..Len(e.tail) : e.tail[i] # 0) \/ e.rem # 0
                      THEN "more" ELSE "half"
        below == \* what the double drops
            IF exact # "half" THEN exact
            ELSE IF e.err = "above" THEN "more"
            ELSE IF e.err = "below" THEN "less" ELSE "half"
        roundUp == below = "more" \/ (below = "half" /\ e.kept[P] % 2 = 1)
    IN  IF ~roundUp THEN [digits |-> e.kept, exp |-> e.exp]
        ELSE IF Increment[e.kept].carry
        THEN [digits |-> <<1>> \o Zeros[P - 1], exp |-> e.exp + 1]
        ELSE [digits |-> Increment[e.kept].digits, exp |-> e.exp]

Roundings == [digits : Seq(Digit), exp : Int]

\* The text of rounded digits s: %e style when the exponent is below -4 or
\* at least the precision, %f style otherwise; trailing zeros and a
\* trailing decimal point are removed.
Rendered[s \in Roundings] ==
    LET P  == StreamPrecision
        X  == s.exp
        ds == s.digits
    IN  IF X < -4 \/ X >= P
        THEN LET frac == StripTrailingZeros[Tail(ds)]
                 ed   == NegDigits[IF X < 0 THEN X ELSE -X]
             IN  DigitChar(Head(ds))
                 \o (IF frac = <<>> THEN "" ELSE "." \o DigitString[frac])
                 \o "e" \o (IF X < 0 THEN "-" ELSE "+")
                 \o (IF Len(ed) < 2 THEN "0" ELSE "") \o DigitString[ed]
        ELSE IF X >= 0
        THEN LET frac == StripTrailingZeros[SubSeq(ds, X + 2, P)]
             IN  DigitString[SubSeq(ds, 1, X + 1)]
                 \o (IF frac = <<>> THEN "" ELSE "." \o DigitString[frac])
        ELSE "0." \o DigitString[Zeros[-X - 1] \o StripTrailingZeros[ds]]

\* The text of a magnitude, after the sign.
FormatMagnitude(m) == Rendered[Rounded[Expansion[m]]]

\* operator<<(std::ostream&, double) with the default flags and precision.
FormatDouble(x) ==
    IF x.kind \in {"nan", "-nan", "inf", "-inf"} THEN x.kind
    ELSE IF x.ip = 0 /\ x.num = 0 THEN "0"
    ELSE (IF x.ip < 0 THEN "-" ELSE "") \o FormatMagnitude(Magnitude(x))

(***************************************************************************)
(* The Analyzer object, its console, and a record of the calls made        *)
(***************************************************************************)

VARIABLES
    name,        \* std::string name
    data,        \* std::vector<int> data
    out,         \* the lines written to std::cout, each ended by std::endl
    ret,         \* value returned by the caller's last calculateAverage()
    divided,     \* whether the last execution of calculateAverage() divided
    lastOp,      \* the member function called last
    calls,       \* number of member-function calls made in the behaviour
    ctorArg,     \* the argument the constructor was called with
    passed,      \* the arguments of the addData calls so far, in call order
    reportedAt   \* for each printReport call, the length of passed at the call

vars == <<name, data, out, ret, divided, lastOp, calls, ctorArg, passed, reportedAt>>

\* No calculateAverage() call has returned to the caller yet.
NoRet == [kind |-> "none", ip |-> 0, num |-> 0, den |-> 1]

\* A plausible slip: the member initializer is missing and name stays empty.
ConstructDefaultName(n) == ""

\* Analyzer(const std::string& name) : name(name) {}
Construct(n) == n

\* A plausible slip: the value is inserted at the front.
PushFront(d, value) == <<Block(value, 1)>> \o d

\* data.push_back(value);
PushBack(d, value) == Append(d, Block(value, 1))

\* A plausible slip: the two lines are written in the other order.
ReportLinesSwapped(n, d) ==
    <<"Average: " \o FormatDouble(CalculateAverage(d)), "Analyzer: " \o n>>

\* std::cout << "Analyzer: " << name << std::endl;
\* std::cout << "Average: " << calculateAverage() << std::endl;
ReportLines(n, d) ==
    <<"Analyzer: " \o n, "Average: " \o FormatDouble(CalculateAverage(d))>>

\* Construction: the name is the argument, the vector is empty, nothing is written.
Init ==
    \E n \in Names :
        /\ name = Construct(n)
        /\ ctorArg = n
        /\ data = <<>>
        /\ out = <<>>
        /\ ret = NoRet
        /\ divided = FALSE
        /\ lastOp = "Analyzer"
        /\ calls = 0
        /\ passed = <<>>
        /\ reportedAt = <<>>

\* A plausible slip: a validation that rejects negative samples.
AddDataRejectingNegative(value) ==
    /\ calls < MaxCalls
    /\ value >= 0
    /\ data' = PushBack(data, value)
    /\ passed' = Append(passed, Block(value, 1))
    /\ lastOp' = "addData"
    /\ calls' = calls + 1
    /\ UNCHANGED <<name, out, ret, divided, ctorArg, reportedAt>>

\* void addData(int value)
AddData(value) ==
    /\ calls < MaxCalls
    /\ data' = PushBack(data, value)
    /\ passed' = Append(passed, Block(value, 1))
    /\ lastOp' = "addData"
    /\ calls' = calls + 1
    /\ UNCHANGED <<name, out, ret, divided, ctorArg, reportedAt>>

\* double calculateAverage() const, called by the owner of the object
CallCalculateAverage ==
    /\ calls < MaxCalls
    /\ ret' = CalculateAverageRun(data).ret
    /\ divided' = CalculateAverageRun(data).divided
    /\ lastOp' = "calculateAverage"
    /\ calls' = calls + 1
    /\ UNCHANGED <<name, data, out, ctorArg, passed, reportedAt>>

\* A plausible slip: the report prints the average computed by an earlier
\* calculateAverage() call instead of computing it again.
PrintReportCached ==
    /\ calls < MaxCalls
    /\ out' = out \o <<"Analyzer: " \o name,
                       "Average: " \o FormatDouble(IF ret = NoRet
                                                   THEN CalculateAverage(data)
                                                   ELSE ret)>>
    /\ divided' = CalculateAverageRun(data).divided
    /\ reportedAt' = Append(reportedAt, Len(passed))
    /\ lastOp' = "printReport"
    /\ calls' = calls + 1
    /\ UNCHANGED <<name, data, ret, ctorArg, passed>>

\* A plausible slip: the report consumes the samples it reports.
PrintReportConsuming ==
    /\ calls < MaxCalls
    /\ out' = out \o ReportLines(name, data)
    /\ divided' = CalculateAverageRun(data).divided
    /\ reportedAt' = Append(reportedAt, Len(passed))
    /\ lastOp' = "printReport"
    /\ calls' = calls + 1
    /\ data' = <<>>
    /\ UNCHANGED <<name, ret, ctorArg, passed>>

\* void printReport() const
PrintReport ==
    /\ calls < MaxCalls
    /\ out' = out \o ReportLines(name, data)
    /\ divided' = CalculateAverageRun(data).divided
    /\ reportedAt' = Append(reportedAt, Len(passed))
    /\ lastOp' = "printReport"
    /\ calls' = calls + 1
    /\ UNCHANGED <<name, data, ret, ctorArg, passed>>

Next ==
    \/ \E value \in Values : AddData(value)
    \/ CallCalculateAverage
    \/ PrintReport

Spec == Init /\ [][Next]_vars

(***************************************************************************)
(* Analyzers holding millions of samples: the behaviours that start after  *)
(* construction or after addData was called BulkCounts times with one of   *)
(* the BulkValues.                                                         *)
(***************************************************************************)

\* The largest number of samples whose partial sums all have magnitude at
\* most 2^53, whatever the samples: 2^(53 - 31).
MaxExactSamples == Pow2[DoubleBits - 31]

BulkValues == {Int32Min, Int32Max}
BulkCounts == {MaxExactSamples - 2, MaxExactSamples}

\* addData arguments explored after the bulk.
LateValues == {Int32Min, -1, 1, Int32Max}

InitBulk ==
    \E n \in Names :
        /\ name = Construct(n)
        /\ ctorArg = n
        /\ \/ data = <<>> /\ lastOp = "Analyzer"
           \/ \E v \in BulkValues : \E c \in BulkCounts :
                 data = <<Block(v, c)>> /\ lastOp = "addData"
        /\ passed = data
        /\ out = <<>>
        /\ ret = NoRet
        /\ divided = FALSE
        /\ calls = 0
        /\ reportedAt = <<>>

NextBulk ==
    \/ \E value \in LateValues : AddData(value)
    \/ CallCalculateAverage
    \/ PrintReport

SpecBulk == InitBulk /\ [][NextBulk]_vars

(***************************************************************************)
(* Reference notions the properties are stated with                        *)
(***************************************************************************)

\* value repeated count times.
Repeat[value \in Int, count \in Nat] ==
    IF count = 0 THEN <<>> ELSE <<value>> \o Repeat[value, count - 1]

\* The elements of a vector, one by one.
RECURSIVE Flat(_)
Flat(d) ==
    IF d = <<>> THEN <<>>
    ELSE Repeat[Head(d).value, Head(d).count] \o Flat(Tail(d))

\* The arguments of the addData calls, in call order.
Added == Flat(passed)

RECURSIVE HiTotal(_)
HiTotal(s) == IF s = <<>> THEN 0 ELSE (Head(s) \div LimbBase) + HiTotal(Tail(s))

RECURSIVE LoTotal(_)
LoTotal(s) == IF s = <<>> THEN 0 ELSE (Head(s) % LimbBase) + LoTotal(Tail(s))

\* The mathematical sum of the integers of s, in limbs (it never wraps).
TrueSum(s) == Normalise(HiTotal(s), LoTotal(s))

\* x is the exact quotient TrueSum(s) / Len(s): a finite mixed number in
\* lowest terms with Len(s) * x = TrueSum(s).
IsMeanOf(x, s) ==
    LET n == Len(s)
        w == FromInt(x.ip)
    IN  /\ x.kind = "finite"
        /\ 0 <= x.num /\ x.num < x.den
        /\ Gcd[x.den, x.num] = 1
        /\ (x.num * n) % x.den = 0
        /\ Normalise(w.hi * n, w.lo * n + ((x.num * n) \div x.den)) = TrueSum(s)

\* The integer v as a double.
Whole(v) == [kind |-> "finite", ip |-> v, num |-> 0, den |-> 1]

\* s with the elements at positions i and j exchanged.
Swap(s, i, j) ==
    [k \in 1..Len(s) |-> IF k = i THEN s[j] ELSE IF k = j THEN s[i] ELSE s[k]]

\* Block b inserted into s before the first block of a larger or equal value.
RECURSIVE InsertSorted(_, _)
InsertSorted(b, s) ==
    IF s = <<>> \/ b.value <= Head(s).value THEN <<b>> \o s
    ELSE <<Head(s)>> \o InsertSorted(b, Tail(s))

\* The ascending arrangement of s: one representative per multiset.
RECURSIVE Sorted(_)
Sorted(s) == IF s = <<>> THEN <<>> ELSE InsertSorted(Head(s), Sorted(Tail(s)))

\* The samples that had been added when the i-th printReport call was made.
SamplesAtReport(i) == SubSeq(passed, 1, reportedAt[i])

\* Two values returned by calculateAverage are the same double.
SameDouble(x, y) ==
    \/ x = y
    \/ /\ x.kind = "finite" /\ y.kind = "finite"
       /\ DoubleOf[Magnitude(x)] = DoubleOf[Magnitude(y)]

\* Every exchange of two blocks of the vector d, and its ascending
\* arrangement, has the average of d.
SameAverageInAnyOrder(d) ==
    /\ \A i \in 1..Len(d) : \A j \in (i + 1)..Len(d) :
          SameDouble(CalculateAverage(Swap(d, i, j)), CalculateAverage(d))
    /\ SameDouble(CalculateAverage(Sorted(d)), CalculateAverage(d))

\* The two lines the i-th printReport call wrote.
ReportNo(i) == SubSeq(out, 2 * i - 1, 2 * i)

Reports == 1..Len(reportedAt)

(***************************************************************************)
(* Properties                                                              *)
(***************************************************************************)

\* C1: while addData has never been called, whatever the name and however
\* many calculateAverage or printReport calls were made, calculateAverage
\* returns exactly 0.0 and does not execute the division by the count; the
\* report then prints 0.
C1_EmptyAverageIsZero ==
    passed = <<>> =>
        /\ ret \in {NoRet, DZero}
        /\ divided = FALSE
        /\ lastOp = "calculateAverage" => ret = DZero
        /\ \A i \in Reports : ReportNo(i)[2] = "Average: 0"

C1_Witness ==
    /\ passed = <<>>
    /\ name = "Sensor-C"
    /\ lastOp = "calculateAverage"
    /\ ret = DZero
    /\ Len(reportedAt) >= 2

\* C2: after a calculateAverage call on a non-empty vector, in any
\* interleaving with other calls, the value returned is the sum of all the
\* samples added divided by their count, not truncated: 20 for 10, 20, 30
\* and 1.5 (not 1) for 1, 2.
C2_AverageIsExactQuotient ==
    (lastOp = "calculateAverage" /\ passed # <<>>) =>
        /\ divided = TRUE
        /\ IsMeanOf(ret, Added)
        /\ Added = <<10, 20, 30>> => ret = Whole(20)
        /\ Added = <<1, 2>> => ret = [kind |-> "finite", ip |-> 1, num |-> 1, den |-> 2]
        /\ Added = <<-3, 2>> => ret = [kind |-> "finite", ip |-> -1, num |-> 1, den |-> 2]

C2_Witness ==
    /\ lastOp = "calculateAverage"
    /\ Added = <<1, 2>>
    /\ reportedAt = <<1>>
    /\ ret = [kind |-> "finite", ip |-> 1, num |-> 1, den |-> 2]

\* C3, as stated: calculateAverage does not depend on the order of the
\* samples: for the vector of any reachable Analyzer, exchanging samples
\* leaves the average unchanged, and the average equals that of the
\* ascending arrangement.
C3_OrderIndependentAlways == SameAverageInAnyOrder(data)

\* C3, amended: while the vector holds at most 2^22 samples,
\* calculateAverage does not depend on their order: exchanging samples
\* leaves the average unchanged, and the average equals that of the
\* ascending arrangement, so all arrangements of one multiset have the
\* same average.
C3_OrderIndependent ==
    Size(data) <= MaxExactSamples => SameAverageInAnyOrder(data)

C3_Witness ==
    /\ Size(data) = MaxExactSamples
    /\ Len(data) = 3
    /\ data[1].value > data[2].value
    /\ data[2].value < data[3].value
    /\ lastOp = "calculateAverage"
    /\ SameDouble(ret, CalculateAverage(Sorted(data)))

\* C4: nothing is written at construction; a printReport call appends
\* exactly two lines to the output, "Analyzer: " followed by the name and
\* then "Average: " followed by the text of the value calculateAverage
\* returns for the current samples; addData and calculateAverage write
\* nothing.
C4_ReportIsTwoLines ==
    /\ [](calls = 0 => out = <<>>)
    /\ [][IF lastOp' = "printReport"
          THEN out' = out \o <<"Analyzer: " \o name,
                               "Average: " \o FormatDouble(CalculateAverage(data))>>
          ELSE out' = out]_vars

C4_Witness ==
    /\ lastOp = "printReport"
    /\ Added = <<1, 2>>
    /\ out = <<"Analyzer: Sensor-C", "Average: 1.5">>

\* C5: printReport calls with no addData call between them, also with
\* calculateAverage calls in between, write identical reports, and a
\* printReport call leaves the name and the samples unchanged.
C5_ReportIdempotent ==
    /\ [](\A i, j \in Reports :
            reportedAt[i] = reportedAt[j] => ReportNo(i) = ReportNo(j))
    /\ [][lastOp' = "printReport" => (data' = data /\ name' = name)]_vars

C5_Witness ==
    /\ Added = <<2>>
    /\ reportedAt = <<1, 1>>
    /\ lastOp = "printReport"
    /\ ret = Whole(2)
    /\ out = <<"Analyzer: Sensor-C", "Average: 2", "Analyzer: Sensor-C", "Average: 2">>

\* C6: every report shows the average of exactly the samples that had been
\* added when it was printed, also those added after an earlier
\* printReport or calculateAverage call, and 0 when none had been added.
C6_ReportReflectsCurrentSamples ==
    \A i \in Reports :
        LET s == SamplesAtReport(i)
        IN  /\ ReportNo(i)[2] = "Average: " \o FormatDouble(CalculateAverage(s))
            /\ s # <<>> => IsMeanOf(CalculateAverage(s), Flat(s))
            /\ s = <<>> => ReportNo(i)[2] = "Average: 0"

C6_Witness ==
    /\ Added = <<1, 2>>
    /\ reportedAt = <<1, 2>>
    /\ out = <<"Analyzer: ", "Average: 1", "Analyzer: ", "Average: 1.5">>

\* C7: the vector is empty after construction and always holds exactly the
\* arguments of the addData calls in call order; an addData call adds one
\* element at the end and keeps the earlier ones, and no other call changes
\* the vector, so its length never decreases.
C7_AppendOnly ==
    /\ [](lastOp = "Analyzer" => data = <<>>)
    /\ [](data = passed)
    /\ [][/\ Size(data') >= Size(data)
          /\ lastOp' = "addData" /\ calls' # calls =>
                /\ Size(data') = Size(data) + 1
                /\ SubSeq(data', 1, Len(data)) = data
          /\ lastOp' # "addData" => data' = data]_vars

C7_Witness ==
    /\ Flat(data) = <<10, 20, 30>>
    /\ out # <<>>
    /\ lastOp = "addData"

\* C8: the name always equals the constructor's argument, the empty text
\* included, whatever calls were made, and every report prints that name.
C8_NameImmutable ==
    /\ name = ctorArg
    /\ \A i \in Reports : ReportNo(i)[1] = "Analyzer: " \o ctorArg

C8_Witness ==
    /\ ctorArg = ""
    /\ name = ""
    /\ passed # <<>>
    /\ ret # NoRet
    /\ Len(reportedAt) = 2
    /\ out[1] = "Analyzer: " /\ out[3] = "Analyzer: "

\* C9: in every reachable state with calls left in the behaviour, addData
\* is enabled for every integer and calculateAverage and printReport are
\* enabled; no call produces an error value: what calculateAverage returns
\* and what printReport prints is always a finite number, on an empty
\* vector too.
C9_Total ==
    /\ calls < MaxCalls =>
          /\ \A value \in Values : ENABLED AddData(value)
          /\ ENABLED CallCalculateAverage
          /\ ENABLED PrintReport
    /\ ret.kind \in {"none", "finite"}
    /\ \A i \in Reports :
          ReportNo(i)[2] \notin {"Average: nan", "Average: -nan",
                                 "Average: inf", "Average: -inf"}

C9_Witness ==
    /\ data = <<>>
    /\ lastOp = "printReport"
    /\ ret = DZero
    /\ out = <<"Analyzer: Sensor-C", "Average: 0">>

\* C10: the sum does not wrap modulo 2^32: when the true sum of the samples
\* lies outside the signed 32-bit range, the average returned is still the
\* true mean, which lies between the smallest and the largest sample; two
\* samples of 2^31-1 give 2^31-1 and two of -2^31 give -2^31.
C10_SumDoesNotWrap ==
    (lastOp = "calculateAverage" /\ passed # <<>>
        /\ TrueSum(Added).hi \notin -16..15) =>
        /\ IsMeanOf(ret, Added)
        /\ \E k \in 1..Len(Added) : ret.ip >= Added[k]
        /\ \E k \in 1..Len(Added) : ret.ip <= Added[k]
        /\ Added = <<Int32Max, Int32Max>> => ret = Whole(Int32Max)
        /\ Added = <<Int32Min, Int32Min>> => ret = Whole(Int32Min)

C10_Witness ==
    /\ lastOp = "calculateAverage"
    /\ Added = <<Int32Max, Int32Max>>
    /\ TrueSum(Added) = [hi |-> 31, lo |-> 134217726]
    /\ ret = Whole(Int32Max)

====
